---- MODULE Spec2Model ----
(***************************************************************************)
(* Model of std::chrono::ADVClock<T> (src/advclock/advclock.hpp): a        *)
(* stopwatch over a monotonic clock source with a process-wide epoch       *)
(* (GLOBAL_CLOCK) and a nanosecond-to-unit conversion routine.             *)
(*                                                                         *)
(* Three specifications share the variables:                               *)
(*   Spec     - one thread: GLOBAL_CLOCK is initialized at some point of   *)
(*              static initialization; instances are constructed, queried  *)
(*              and tared.                                                 *)
(*   SpecMT   - two threads calling tare() / elapsedRawNanoDur() on one    *)
(*              shared instance, one memory access per step.               *)
(*   SpecConv - the static conversions RuntimeCast / RuntimeCastFromNano   *)
(*              applied to bounded inputs.                                 *)
(***************************************************************************)
EXTENDS Integers, Sequences, FiniteSets, TLC

(***************************************************************************)
(* Bounds of the model.                                                    *)
(***************************************************************************)
\* Largest value ClockType::now() reaches in Spec.
MaxTime == 3
\* Largest value ClockType::now() reaches in SpecMT.
MaxTimeMT == 3
\* Largest multiple of a base duration given to the conversions.
MaxMult == 3

(***************************************************************************)
(* Arithmetic.  int64_t nanosecond counts reach 10^18, so magnitudes are   *)
(* kept as little-endian sequences of limbs in base 1000, without leading  *)
(* (most significant) zero limbs; zero is the empty sequence.              *)
(***************************************************************************)
Limbs == 0..999

Base == Cardinality(Limbs)

RECURSIVE BigNorm(_)
BigNorm(a) ==
  IF a = <<>> THEN <<>>
  ELSE IF a[Len(a)] = 0 THEN BigNorm(SubSeq(a, 1, Len(a) - 1))
  ELSE a

RECURSIVE ToBig(_)
ToBig(n) == IF n = 0 THEN <<>> ELSE <<n % Base>> \o ToBig(n \div Base)

\* The number written in groups of three digits, most significant first.
Groups(g) == BigNorm([i \in 1..Len(g) |-> g[Len(g) + 1 - i]])

BigOne == <<1>>

RECURSIVE BigAddC(_, _, _)
BigAddC(a, b, c) ==
  IF a = <<>> /\ b = <<>> THEN (IF c = 0 THEN <<>> ELSE <<c>>)
  ELSE LET x == IF a = <<>> THEN 0 ELSE Head(a)
           y == IF b = <<>> THEN 0 ELSE Head(b)
           s == x + y + c
       IN  <<s % Base>> \o BigAddC(IF a = <<>> THEN <<>> ELSE Tail(a),
                                   IF b = <<>> THEN <<>> ELSE Tail(b),
                                   s \div Base)

BigAdd(a, b) == BigAddC(a, b, 0)

RECURSIVE BigMulSmallC(_, _, _)
BigMulSmallC(a, k, c) ==
  IF a = <<>> THEN ToBig(c)
  ELSE LET p == Head(a) * k + c
       IN  <<p % Base>> \o BigMulSmallC(Tail(a), k, p \div Base)

\* a * k for a limb k.
BigMulSmall(a, k) == BigNorm(BigMulSmallC(a, k, 0))

RECURSIVE BigMul(_, _)
BigMul(a, b) ==
  IF a = <<>> \/ b = <<>> THEN <<>>
  ELSE LET rest == BigMul(a, Tail(b))
       IN  BigAdd(BigMulSmall(a, Head(b)),
                  IF rest = <<>> THEN <<>> ELSE <<0>> \o rest)

RECURSIVE BigLeqFrom(_, _, _)
BigLeqFrom(a, b, i) ==
  IF i = 0 THEN TRUE
  ELSE IF a[i] # b[i] THEN a[i] < b[i]
  ELSE BigLeqFrom(a, b, i - 1)

\* a <= b
BigLeq(a, b) ==
  IF Len(a) # Len(b) THEN Len(a) < Len(b) ELSE BigLeqFrom(a, b, Len(a))

\* The largest q in lo..hi with q * b <= x (lo satisfies it).
RECURSIVE BigQuotLimb(_, _, _, _)
BigQuotLimb(x, b, lo, hi) ==
  IF lo = hi THEN lo
  ELSE LET mid == (lo + hi + 1) \div 2
       IN  IF BigLeq(BigMulSmall(b, mid), x)
           THEN BigQuotLimb(x, b, mid, hi)
           ELSE BigQuotLimb(x, b, lo, mid - 1)

\* x - y for y <= x, limb by limb with borrow.
RECURSIVE BigSubB(_, _, _)
BigSubB(x, y, br) ==
  IF x = <<>> THEN <<>>
  ELSE LET yy == IF y = <<>> THEN 0 ELSE Head(y)
           d  == Head(x) - yy - br
       IN  <<IF d < 0 THEN d + Base ELSE d>>
             \o BigSubB(Tail(x), IF y = <<>> THEN <<>> ELSE Tail(y),
                        IF d < 0 THEN 1 ELSE 0)

BigSub(x, y) == BigNorm(BigSubB(x, y, 0))

\* Quotient and remainder of a by b (b # 0), by long division.
RECURSIVE BigDivMod(_, _)
BigDivMod(a, b) ==
  IF Len(a) < Len(b) THEN [q |-> <<>>, r |-> a]
  ELSE LET hi  == BigDivMod(Tail(a), b)
           x   == BigNorm(<<Head(a)>> \o hi.r)
           q2  == BigQuotLimb(x, b, 0, Base - 1)
       IN  [q |-> BigNorm(<<q2>> \o hi.q),
            r |-> BigSub(x, BigMulSmall(b, q2))]

BigDiv(a, b) == BigDivMod(a, b).q

(***************************************************************************)
(* C++ arithmetic values.  A value carries its static type t: "int64_t"    *)
(* (den = 1) or "double", idealised as the exact rational num / den, with  *)
(* the sign kept apart since integer division and the conversion of a      *)
(* double to an integer both truncate toward zero.                         *)
(***************************************************************************)
Types == {"int64_t", "double"}

Abs(n) == IF n < 0 THEN 0 - n ELSE n

\* The int64_t with value n.
Int64(n) == [t |-> "int64_t", neg |-> n < 0, num |-> ToBig(Abs(n)), den |-> BigOne]

\* The int64_t with magnitude m (non-negative).
Int64Big(m) == [t |-> "int64_t", neg |-> FALSE, num |-> m, den |-> BigOne]

\* The double literal n / d.
Double(n, d) == [t |-> "double", neg |-> FALSE, num |-> ToBig(n), den |-> ToBig(d)]

\* static_cast<rtnType>(x), also the implicit conversion of a return value.
Cast(rtnType, x) ==
  IF rtnType = "double" THEN [x EXCEPT !.t = "double"]
  ELSE IF x.t = "int64_t" THEN x
  ELSE LET q == BigDiv(x.num, x.den)
       IN  [t |-> "int64_t", neg |-> x.neg /\ q # <<>>, num |-> q, den |-> BigOne]

\* x / y under the usual arithmetic conversions: integer division when both
\* operands are integers, floating division otherwise.
Div(x, y) ==
  IF x.t = "int64_t" /\ y.t = "int64_t"
  THEN LET q == BigDiv(x.num, y.num)
       IN  [t |-> "int64_t", neg |-> (x.neg # y.neg) /\ q # <<>>,
            num |-> q, den |-> BigOne]
  ELSE [t |-> "double", neg |-> (x.neg # y.neg) /\ x.num # <<>>,
        num |-> BigMul(x.num, y.den), den |-> BigMul(x.den, y.num)]

\* x == y for two values of the same type.
ValEq(x, y) ==
  /\ x.t = y.t
  /\ BigMul(x.num, y.den) = BigMul(y.num, x.den)
  /\ (x.num # <<>> => x.neg = y.neg)

\* 0 <= x
ValNonNeg(x) == x.num = <<>> \/ ~x.neg

(***************************************************************************)
(* enum Precision : char, and the conversion ratios.                       *)
(***************************************************************************)
Nanoseconds == 0
Microseconds == 1
Milliseconds == 2
Seconds == 3
Minutes == 4
Hours == 5
Days == 6
Weeks == 7
Months == 8
Years == 9

Precision == Nanoseconds..Years

\* Values a Precision argument can hold: the enumerators and, the enum
\* having the fixed underlying type char, one value on each side of them.
Selectors == (Nanoseconds - 1)..(Years + 1)

SecsInMin == Int64(60)
MinsInHour == Int64(60)
HoursInDay == Int64(24)
DaysInWeek == Int64(7)
DaysInYear == Double(36524, 100)
MonthsInYear == Int64(12)

(***************************************************************************)
(* RuntimeCastFromNano<rtnType>(fromNanos, precision): the macros of the   *)
(* function body, each expanded from the one before it.                    *)
(***************************************************************************)
divb1k(rtnType, x) == Div(x, Cast(rtnType, Double(1000, 1)))

nanos(rtnType, fromNanos) == Cast("int64_t", fromNanos)

micros(rtnType, fromNanos) == divb1k(rtnType, nanos(rtnType, fromNanos))

millis(rtnType, fromNanos) == divb1k(rtnType, micros(rtnType, fromNanos))

secs(rtnType, fromNanos) == divb1k(rtnType, millis(rtnType, fromNanos))

mins(rtnType, fromNanos) == Div(secs(rtnType, fromNanos), SecsInMin)

hours(rtnType, fromNanos) == Div(mins(rtnType, fromNanos), MinsInHour)

days(rtnType, fromNanos) == Div(hours(rtnType, fromNanos), HoursInDay)

weeks(rtnType, fromNanos) == Div(days(rtnType, fromNanos), DaysInWeek)

\* A year of 365 days.
years_365(rtnType, fromNanos) == Div(days(rtnType, fromNanos), Int64(365))

years(rtnType, fromNanos) == Div(days(rtnType, fromNanos), DaysInYear)

months(rtnType, fromNanos) == Div(years(rtnType, fromNanos), MonthsInYear)

RuntimeCastFromNano(rtnType, fromNanos, precision) ==
  Cast(rtnType,
       CASE precision = Nanoseconds  -> nanos(rtnType, fromNanos)
         [] precision = Microseconds -> micros(rtnType, fromNanos)
         [] precision = Milliseconds -> millis(rtnType, fromNanos)
         [] precision = Seconds      -> secs(rtnType, fromNanos)
         [] precision = Minutes      -> mins(rtnType, fromNanos)
         [] precision = Hours        -> hours(rtnType, fromNanos)
         [] precision = Days         -> days(rtnType, fromNanos)
         [] precision = Weeks        -> weeks(rtnType, fromNanos)
         [] precision = Months       -> months(rtnType, fromNanos)
         [] precision = Years        -> years(rtnType, fromNanos)
         [] OTHER                    -> nanos(rtnType, fromNanos))

\* duration_cast<nanoseconds> of a nanoseconds duration.
duration_cast(cast) == cast

\* RuntimeCast<rtnType>(cast, precision): the call names no template
\* argument, so the conversion runs with the default rtnType = double and
\* the double is converted to rtnType on return.
RuntimeCast(rtnType, cast, precision) ==
  Cast(rtnType, RuntimeCastFromNano("double", duration_cast(cast), precision))

(***************************************************************************)
(* State.                                                                  *)
(*   clock       the value ClockType::now() returns next (steady_clock)    *)
(*   gInit       GLOBAL_CLOCK's constructor has run; until then the        *)
(*               program is in static initialization                       *)
(*   gBegin      GLOBAL_CLOCK.m_begin (zero-initialized before that)       *)
(*   constructed the instances whose constructor has run                   *)
(*   m_begin     m_begin of each instance                                  *)
(*   preTare     history: m_begin as it was before the instance's last     *)
(*               tare, if it was tared                                     *)
(*   last        history: the last call, the clock samples it took (s1 for *)
(*               the measurement, s2 for the tare), the duration it        *)
(*               computed (rtn) and the number it returned (val)           *)
(*   th          SpecMT: the position and locals of each thread            *)
(*   conv        SpecConv: the conversion input and the last conversion    *)
(* An optional value (a sample, a result) is a set with at most one        *)
(* element.                                                                *)
(***************************************************************************)
VARIABLES clock, gInit, gBegin, constructed, m_begin, preTare, last,
          th, conv

vars == <<clock, gInit, gBegin, constructed, m_begin, preTare, last,
          th, conv>>

\* Two stopwatches besides GLOBAL_CLOCK.
Inst == {"c1", "c2"}

\* Precision arguments the calls of Spec are made with.
ArgPrecisions == {Nanoseconds, Microseconds}

NoCall ==
  [op |-> "none", inst |-> "none", rtnType |-> "int64_t",
   precision |-> Nanoseconds, tareClock |-> FALSE,
   s1 |-> {}, s2 |-> {}, rtn |-> {}, val |-> {}]

NoConv == [d |-> Int64(0), fn |-> "none", rtnType |-> "double",
           precision |-> Nanoseconds, out |-> {}]

Threads == {"t1", "t2"}

Idle == [pc |-> "idle", tareClock |-> FALSE, order |-> "none",
         sample |-> {}, mAtSample |-> {}, bRead |-> {}, tnow |-> {}, rtn |-> {}]

(***************************************************************************)
(* The methods' computations.                                              *)
(***************************************************************************)
\* beginDur() without the epoch term.
beginDur_noEpoch(mb, g) == mb

\* beginDur(): m_begin - GLOBAL_CLOCK.m_begin
beginDur(mb, g) == mb - g

\* nowDur() without the epoch term.
nowDur_noEpoch(t, g) == t

\* nowDur(): ClockType::now() - GLOBAL_CLOCK.m_begin, for the sample t
nowDur(t, g) == t - g

\* The operands of the subtraction exchanged.
elapsedRtn_swapped(t, mb, g) == beginDur(mb, g) - nowDur(t, g)

\* elapsedRawNanoDur(): auto rtn = nowDur() - beginDur()
elapsedRtn(t, mb, g) == nowDur(t, g) - beginDur(mb, g)

\* tare() resetting to the default time_point instead of now().
tare_zero(mbs, i, t) == [mbs EXCEPT ![i] = 0]

\* tare(): m_begin = ClockType::now(), for the sample t
tare(mbs, i, t) == [mbs EXCEPT ![i] = t]

\* The flag ignored: never tare, always tare.
tareIf_never(tareClock, mbs, i, t) == mbs

tareIf_always(tareClock, mbs, i, t) == tare(mbs, i, t)

\* tareClock ? tare() : void(0)
tareIf(tareClock, mbs, i, t) == IF tareClock THEN tare(mbs, i, t) ELSE mbs

\* begin() passing its precision argument on.
begin_withPrecision(rtnType, precision, dur) ==
  RuntimeCast(rtnType, Int64(dur), precision)

\* begin<rtnType>(precision) applied to the value of beginDur()
begin(rtnType, precision, dur) == RuntimeCast(rtnType, Int64(dur), Nanoseconds)

\* now<rtnType>(precision) applied to the value of nowDur()
now(rtnType, precision, dur) == RuntimeCast(rtnType, Int64(dur), Nanoseconds)

\* elapsed<rtnType>(precision, tareClock) applied to elapsedRawNanoDur()
elapsed(rtnType, precision, dur) == RuntimeCast(rtnType, Int64(dur), precision)

(***************************************************************************)
(* Spec: one thread.                                                       *)
(***************************************************************************)
Init ==
  /\ clock = 1
  /\ gInit = FALSE
  /\ gBegin = 0
  /\ constructed = {}
  /\ m_begin = [i \in Inst |-> 0]
  /\ preTare = [i \in Inst |-> {}]
  /\ last = NoCall
  /\ th = [t \in Threads |-> Idle]
  /\ conv = NoConv

\* Time passes between two calls.  A call samples ClockType::now() as the
\* current value of clock; within elapsed(tareClock = true) time may pass
\* between the measurement sample and the sample tare() takes.
Tick ==
  /\ clock < MaxTime
  /\ clock' = clock + 1
  /\ UNCHANGED <<gInit, gBegin, constructed, m_begin, preTare, last,
                 th, conv>>

\* Dynamic initialization of the static member GLOBAL_CLOCK during static
\* initialization, unordered with respect to the initialization of the
\* program's other static objects, whose initializers may construct and
\* use stopwatches before it.
ConstructGlobal ==
  /\ ~gInit
  /\ gBegin' = clock
  /\ last' = [NoCall EXCEPT !.op = "GLOBAL_CLOCK", !.s1 = {clock}]
  /\ gInit' = TRUE
  /\ UNCHANGED <<clock, constructed, m_begin, preTare, th, conv>>

\* ADVClock(): m_begin(ClockType::now())
Construct(i) ==
  /\ i \notin constructed
  /\ m_begin' = [m_begin EXCEPT ![i] = clock]
  /\ last' = [NoCall EXCEPT !.op = "ADVClock", !.inst = i, !.s1 = {clock}]
  /\ constructed' = constructed \cup {i}
  /\ UNCHANGED <<clock, gInit, gBegin, preTare, th, conv>>

BeginDur(i) ==
  /\ i \in constructed
  /\ last' = [NoCall EXCEPT !.op = "beginDur", !.inst = i,
                            !.rtn = {beginDur(m_begin[i], gBegin)}]
  /\ UNCHANGED <<clock, gInit, gBegin, constructed, m_begin, preTare,
                 th, conv>>

Begin(i, rtnType, precision) ==
  /\ i \in constructed
  /\ LET dur == beginDur(m_begin[i], gBegin)
     IN  last' = [NoCall EXCEPT !.op = "begin", !.inst = i,
                           !.rtnType = rtnType, !.precision = precision,
                           !.rtn = {dur},
                           !.val = {begin(rtnType, precision, dur)}]
  /\ UNCHANGED <<clock, gInit, gBegin, constructed, m_begin, preTare,
                 th, conv>>

NowDur(i) ==
  /\ i \in constructed
  /\ last' = [NoCall EXCEPT !.op = "nowDur", !.inst = i, !.s1 = {clock},
                            !.rtn = {nowDur(clock, gBegin)}]
  /\ UNCHANGED <<clock, gInit, gBegin, constructed, m_begin, preTare,
                 th, conv>>

Now(i, rtnType, precision) ==
  /\ i \in constructed
  /\ LET dur == nowDur(clock, gBegin)
     IN  last' = [NoCall EXCEPT !.op = "now", !.inst = i,
                           !.rtnType = rtnType, !.precision = precision,
                           !.s1 = {clock}, !.rtn = {dur},
                           !.val = {now(rtnType, precision, dur)}]
  /\ UNCHANGED <<clock, gInit, gBegin, constructed, m_begin, preTare,
                 th, conv>>

\* The effect shared by the three elapsed variants: the measurement sample
\* t1, then, when tareClock, the sample t2 that tare() takes after it.
ElapsedEffect(i, tareClock, t1, t2) ==
  /\ tareClock \/ t2 = t1
  /\ clock' = t2
  /\ m_begin' = tareIf(tareClock, m_begin, i, t2)
  /\ preTare' = IF tareClock
                THEN [preTare EXCEPT ![i] = {m_begin[i]}] ELSE preTare
  /\ UNCHANGED <<gInit, gBegin, constructed, th, conv>>

ElapsedCall(op, i, rtnType, precision, tareClock, t1, t2) ==
  [NoCall EXCEPT !.op = op, !.inst = i,
                 !.rtnType = rtnType, !.precision = precision,
                 !.tareClock = tareClock, !.s1 = {t1},
                 !.s2 = IF tareClock THEN {t2} ELSE {},
                 !.rtn = {elapsedRtn(t1, m_begin[i], gBegin)}]

ElapsedRawNanoDur(i, tareClock) ==
  /\ i \in constructed
  /\ \E t2 \in clock..MaxTime :
       /\ ElapsedEffect(i, tareClock, clock, t2)
       /\ last' = ElapsedCall("elapsedRawNanoDur", i, "int64_t", Nanoseconds,
                              tareClock, clock, t2)

\* int64_t rtn = elapsedRawNanoDur().count(); tareClock ? tare() : void(0)
ElapsedRawNano(i, tareClock) ==
  /\ i \in constructed
  /\ \E t2 \in clock..MaxTime :
       /\ ElapsedEffect(i, tareClock, clock, t2)
       /\ last' = [ElapsedCall("elapsedRawNano", i, "int64_t", Nanoseconds,
                               tareClock, clock, t2)
                     EXCEPT !.val = {Int64(elapsedRtn(clock, m_begin[i], gBegin))}]

Elapsed(i, rtnType, precision, tareClock) ==
  /\ i \in constructed
  /\ \E t2 \in clock..MaxTime :
       /\ ElapsedEffect(i, tareClock, clock, t2)
       /\ last' = [ElapsedCall("elapsed", i, rtnType, precision, tareClock, clock, t2)
                     EXCEPT !.val = {elapsed(rtnType, precision,
                                             elapsedRtn(clock, m_begin[i], gBegin))}]

Tare(i) ==
  /\ i \in constructed
  /\ m_begin' = tare(m_begin, i, clock)
  /\ last' = [NoCall EXCEPT !.op = "tare", !.inst = i, !.s2 = {clock}]
  /\ preTare' = [preTare EXCEPT ![i] = {m_begin[i]}]
  /\ UNCHANGED <<clock, gInit, gBegin, constructed, th, conv>>

\* A static conversion of the duration the last call returned, as in the
\* example usage at the end of the header.
ConvertLast(rtnType, precision) ==
  /\ last.op \in {"beginDur", "nowDur", "elapsedRawNanoDur"}
  /\ \E dur \in last.rtn :
       last' = [last EXCEPT !.op = "RuntimeCast", !.rtnType = rtnType,
                            !.precision = precision,
                            !.val = {RuntimeCast(rtnType, Int64(dur), precision)}]
  /\ UNCHANGED <<clock, gInit, gBegin, constructed, m_begin, preTare,
                 th, conv>>

Next ==
  \/ Tick
  \/ ConstructGlobal
  \/ \E i \in Inst : Construct(i)
  \/ \E i \in Inst : BeginDur(i)
  \/ \E i \in Inst, rtnType \in Types, precision \in ArgPrecisions :
       Begin(i, rtnType, precision)
  \/ \E i \in Inst : NowDur(i)
  \/ \E i \in Inst, rtnType \in Types, precision \in ArgPrecisions :
       Now(i, rtnType, precision)
  \/ \E i \in Inst, tareClock \in BOOLEAN : ElapsedRawNanoDur(i, tareClock)
  \/ \E i \in Inst, tareClock \in BOOLEAN : ElapsedRawNano(i, tareClock)
  \/ \E i \in Inst, rtnType \in Types, precision \in ArgPrecisions,
        tareClock \in BOOLEAN : Elapsed(i, rtnType, precision, tareClock)
  \/ \E i \in Inst : Tare(i)
  \/ \E precision \in ArgPrecisions : ConvertLast("double", precision)

Spec == Init /\ [][Next]_vars

(***************************************************************************)
(* SpecMT: two threads share the instance Shared without a lock.  A step   *)
(* is one clock read or one access to m_begin.  The operands of            *)
(* nowDur() - beginDur() are evaluated in either order (order).            *)
(***************************************************************************)
Shared == "c1"

Orders == {"now_first", "begin_first"}

InitMT ==
  /\ clock = 1
  /\ gInit = TRUE
  /\ gBegin = 1
  /\ constructed = {Shared}
  /\ m_begin = [i \in Inst |-> IF i = Shared THEN 1 ELSE 0]
  /\ preTare = [i \in Inst |-> {}]
  /\ last = NoCall
  /\ th = [t \in Threads |-> Idle]
  /\ conv = NoConv

MTTick ==
  /\ clock < MaxTimeMT
  /\ clock' = clock + 1
  /\ UNCHANGED <<gInit, gBegin, constructed, m_begin, preTare, last, th, conv>>

\* A thread enters elapsedRawNanoDur(tareClock).
MTCallElapsed(t, tareClock, order) ==
  /\ th[t].pc = "idle"
  /\ th' = [th EXCEPT ![t] = [Idle EXCEPT
               !.pc = IF order = "now_first" THEN "now" ELSE "begin",
               !.tareClock = tareClock, !.order = order]]
  /\ UNCHANGED <<clock, gInit, gBegin, constructed, m_begin, preTare, last, conv>>

\* A thread enters tare().
MTCallTare(t) ==
  /\ th[t].pc = "idle"
  /\ th' = [th EXCEPT ![t] = [Idle EXCEPT !.pc = "tare_now"]]
  /\ UNCHANGED <<clock, gInit, gBegin, constructed, m_begin, preTare, last, conv>>

\* nowDur(): the clock read.
MTNowDur(t) ==
  /\ th[t].pc = "now"
  /\ th' = [th EXCEPT ![t].sample = {clock},
                      ![t].mAtSample = {m_begin[Shared]},
                      ![t].pc = IF th[t].bRead = {} THEN "begin" ELSE "sub"]
  /\ UNCHANGED <<clock, gInit, gBegin, constructed, m_begin, preTare, last, conv>>

\* beginDur(): the read of m_begin.
MTBeginDur(t) ==
  /\ th[t].pc = "begin"
  /\ th' = [th EXCEPT ![t].bRead = {m_begin[Shared]},
                      ![t].pc = IF th[t].sample = {} THEN "now" ELSE "sub"]
  /\ UNCHANGED <<clock, gInit, gBegin, constructed, m_begin, preTare, last, conv>>

\* auto rtn = nowDur() - beginDur()
MTSub(t) ==
  /\ th[t].pc = "sub"
  /\ \E s \in th[t].sample : \E b \in th[t].bRead :
       th' = [th EXCEPT ![t].rtn = {elapsedRtn(s, b, gBegin)},
                        ![t].pc = IF th[t].tareClock THEN "tare_now" ELSE "ret"]
  /\ UNCHANGED <<clock, gInit, gBegin, constructed, m_begin, preTare, last, conv>>

\* tare(): the clock read.
MTTareNow(t) ==
  /\ th[t].pc = "tare_now"
  /\ th' = [th EXCEPT ![t].tnow = {clock}, ![t].pc = "tare_write"]
  /\ UNCHANGED <<clock, gInit, gBegin, constructed, m_begin, preTare, last, conv>>

\* tare(): the write of m_begin.
MTTareWrite(t) ==
  /\ th[t].pc = "tare_write"
  /\ \E w \in th[t].tnow : m_begin' = tare(m_begin, Shared, w)
  /\ th' = [th EXCEPT ![t].pc = "ret"]
  /\ UNCHANGED <<clock, gInit, gBegin, constructed, preTare, last, conv>>

\* The call returns (rtn, for an elapsed call) to its caller.
MTReturn(t) ==
  /\ th[t].pc = "ret"
  /\ th' = [th EXCEPT ![t] = Idle]
  /\ UNCHANGED <<clock, gInit, gBegin, constructed, m_begin, preTare, last, conv>>

NextMT ==
  \/ MTTick
  \/ \E t \in Threads, tareClock \in BOOLEAN, order \in Orders :
       MTCallElapsed(t, tareClock, order)
  \/ \E t \in Threads : MTCallTare(t)
  \/ \E t \in Threads : MTNowDur(t)
  \/ \E t \in Threads : MTBeginDur(t)
  \/ \E t \in Threads : MTSub(t)
  \/ \E t \in Threads : MTTareNow(t)
  \/ \E t \in Threads : MTTareWrite(t)
  \/ \E t \in Threads : MTReturn(t)

SpecMT == InitMT /\ [][NextMT]_vars

(***************************************************************************)
(* SpecConv: the static conversions applied to bounded inputs.             *)
(***************************************************************************)
\* Durations in nanoseconds whose multiples are converted.
BaseDurations ==
  { Groups(<<1>>),                          \* 1 ns
    Groups(<<499>>),                        \* 499 ns
    Groups(<<1, 000>>),                     \* 1 us
    Groups(<<1, 000, 000, 000>>),           \* 1 s
    Groups(<<60, 000, 000, 000>>),          \* 1 min
    Groups(<<3, 600, 000, 000, 000>>),      \* 1 h
    Groups(<<43, 200, 000, 000, 000>>),     \* 12 h
    Groups(<<86, 400, 000, 000, 000>>),     \* 1 day
    Groups(<<31, 556, 736, 000, 000, 000>>) \* 365.24 days
  }

\* 365.5 days and 4382.9 days, in nanoseconds.
FractionalDays ==
  { Groups(<<31, 579, 200, 000, 000, 000>>),
    Groups(<<378, 682, 560, 000, 000, 000>>) }

ConvInputs ==
  {BigMulSmall(b, k) : b \in BaseDurations, k \in 0..MaxMult} \cup FractionalDays

InitConv ==
  /\ clock = 1
  /\ gInit = FALSE
  /\ gBegin = 0
  /\ constructed = {}
  /\ m_begin = [i \in Inst |-> 0]
  /\ preTare = [i \in Inst |-> {}]
  /\ last = NoCall
  /\ th = [t \in Threads |-> Idle]
  /\ \E d \in ConvInputs : conv = [NoConv EXCEPT !.d = Int64Big(d)]

CallRuntimeCastFromNano(rtnType, precision) ==
  /\ conv' = [conv EXCEPT !.fn = "RuntimeCastFromNano", !.rtnType = rtnType,
                          !.precision = precision,
                          !.out = {RuntimeCastFromNano(rtnType, conv.d, precision)}]
  /\ UNCHANGED <<clock, gInit, gBegin, constructed, m_begin, preTare, last, th>>

CallRuntimeCast(rtnType, precision) ==
  /\ conv' = [conv EXCEPT !.fn = "RuntimeCast", !.rtnType = rtnType,
                          !.precision = precision,
                          !.out = {RuntimeCast(rtnType, conv.d, precision)}]
  /\ UNCHANGED <<clock, gInit, gBegin, constructed, m_begin, preTare, last, th>>

NextConv ==
  \/ \E rtnType \in Types, precision \in Selectors :
       CallRuntimeCastFromNano(rtnType, precision)
  \/ \E rtnType \in Types, precision \in Selectors :
       CallRuntimeCast(rtnType, precision)

SpecConv == InitConv /\ [][NextConv]_vars

(***************************************************************************)
(* Properties.                                                             *)
(***************************************************************************)
ElapsedOps == {"elapsedRawNanoDur", "elapsedRawNano", "elapsed"}

\* The call recorded in l reset its instance.
Resets(l) == l.op = "tare" \/ (l.op \in ElapsedOps /\ l.tareClock)

\* The cumulative divisor of each unit, in nanoseconds.
RefDivisor(precision) ==
  CASE precision = Microseconds -> Groups(<<1, 000>>)
    [] precision = Milliseconds -> Groups(<<1, 000, 000>>)
    [] precision = Seconds      -> Groups(<<1, 000, 000, 000>>)
    [] precision = Minutes      -> Groups(<<60, 000, 000, 000>>)
    [] precision = Hours        -> Groups(<<3, 600, 000, 000, 000>>)
    [] precision = Days         -> Groups(<<86, 400, 000, 000, 000>>)
    [] precision = Weeks        -> Groups(<<604, 800, 000, 000, 000>>)
    [] precision = Years        -> Groups(<<31, 556, 736, 000, 000, 000>>)
    [] precision = Months       -> Groups(<<378, 680, 832, 000, 000, 000>>)
    [] OTHER                    -> BigOne

\* The real value of d nanoseconds in the unit, as a double.
RefConvert(d, precision) ==
  [t |-> "double", neg |-> d.neg /\ d.num # <<>>, num |-> d.num,
   den |-> RefDivisor(precision)]

\* C1: every elapsed variant returns (the clock sample this call takes)
\* minus (m_begin as it is when the call starts), whatever the epoch is;
\* so it returns at least the clock's advance since the reference point.
C1_ElapsedIsSampleMinusReference ==
  [][\A i \in Inst :
       (last' # last /\ last'.op \in ElapsedOps /\ last'.inst = i) =>
         /\ last'.s1 # {} /\ last'.rtn # {}
         /\ \A s \in last'.s1 : \A r \in last'.rtn :
              /\ s >= clock
              /\ r = s - m_begin[i]
              /\ r >= clock - m_begin[i]]_vars

C1_Witness ==
  /\ last.op \in ElapsedOps
  /\ gInit /\ gBegin > 0
  /\ \E r \in last.rtn : r >= 2

\* C2: an elapsed call with tareClock = true returns the time measured
\* against the reference point held before the call, then sets the
\* reference point to a second sample no earlier than the measurement
\* sample; the elapsed call that follows measures from that second sample.
C2_TareAfterMeasurement ==
  [][\A i \in Inst :
       /\ (last' # last /\ last'.op \in ElapsedOps /\ last'.inst = i
             /\ last'.tareClock) =>
            /\ last'.s2 # {}
            /\ \A s \in last'.s1 : \A r \in last'.rtn : \A w \in last'.s2 :
                 r = s - m_begin[i] /\ w >= s /\ m_begin'[i] = w
       /\ (last.op \in ElapsedOps /\ last.inst = i /\ last.tareClock
             /\ last' # last /\ last'.op \in ElapsedOps /\ last'.inst = i) =>
            \A w \in last.s2 : \A s \in last'.s1 : \A r \in last'.rtn :
                 r = s - w]_vars

C2_Witness ==
  /\ last.op \in ElapsedOps /\ last.tareClock
  /\ \E s \in last.s1 : \E w \in last.s2 : \E r \in last.rtn :
       w > s /\ r > 0 /\ m_begin[last.inst] = w

\* C3: the epoch is written before any instance is constructed and queried,
\* so in every state every instance's reference point is at or after the
\* epoch and beginDur() is never negative.
C3_EpochBeforeEveryInstance ==
  \A i \in constructed :
    /\ gBegin <= m_begin[i]
    /\ (last.inst = i /\ last.op \in {"beginDur", "begin"}) =>
         \A r \in last.rtn : r >= 0

\* C4: every value an elapsed variant returns is non-negative.
C4_ElapsedNonNegative ==
  last.op \in ElapsedOps =>
    /\ \A r \in last.rtn : r >= 0
    /\ \A v \in last.val : ValNonNeg(v)

C4_Witness ==
  /\ last.op = "elapsed"
  /\ preTare[last.inst] # {}
  /\ \E r \in last.rtn : r >= 1
  /\ \E v \in last.val : v.num # <<>>

\* C5: after construction m_begin changes only in tare() and in an elapsed
\* variant called with tareClock = true, which set the called instance's
\* m_begin to the fresh sample they take; every other call leaves every
\* m_begin alone, and no call on an instance changes the epoch.
C5_OnlyTareWritesReference ==
  [][/\ \A i \in constructed :
          m_begin'[i] # m_begin[i] =>
            last'.inst = i /\ Resets(last') /\ m_begin'[i] \in last'.s2
     /\ (last' # last /\ Resets(last')) =>
          /\ last'.s2 # {}
          /\ \A w \in last'.s2 : w >= clock /\ m_begin'[last'.inst] = w
     /\ (last' # last /\ last'.inst \in Inst /\ ~Resets(last')) =>
          \A i \in constructed : m_begin'[i] = m_begin[i]
     /\ gBegin' # gBegin => last'.op = "GLOBAL_CLOCK"]_vars

C5_Witness ==
  /\ last.op \in ElapsedOps /\ last.tareClock
  /\ constructed = Inst
  /\ m_begin[last.inst] \in last.s2
  /\ m_begin[last.inst] \notin preTare[last.inst]
  /\ preTare[last.inst] # {}
  /\ \E j \in Inst : j # last.inst /\ m_begin[j] # m_begin[last.inst]

\* C6: without a lock, an elapsed call that runs while another thread tares
\* the same instance combines its clock sample with whatever m_begin holds
\* when it reads it; it returns a negative duration exactly in runs where
\* it sampled the clock first and read a reference point written after.
C6_ElapsedReadsTwice ==
  \A t \in Threads :
    \A r \in th[t].rtn : \A s \in th[t].sample : \A b \in th[t].bRead :
      /\ r = s - b
      /\ r < 0 => /\ th[t].order = "now_first"
                  /\ b \notin th[t].mAtSample
                  /\ b > s

C6_Witness ==
  \E t \in Threads :
    /\ th[t].pc = "ret"
    /\ \E r \in th[t].rtn : r < 0
    /\ \A s \in th[t].sample : s <= clock

\* C7: an elapsed call made after a tare returns no more than the same
\* clock sample measured against the reference point held before that tare;
\* a tare never moves the reference point back, so this carries over to
\* every earlier tare of the instance.
C7_TareNeverIncreasesElapsed ==
  [][\A i \in Inst :
       /\ (last' # last /\ last'.op \in ElapsedOps /\ last'.inst = i) =>
            \A p \in preTare[i] : \A s \in last'.s1 : \A r \in last'.rtn :
              r <= s - p
       /\ i \in constructed => m_begin'[i] >= m_begin[i]]_vars

C7_Witness ==
  /\ last.op \in ElapsedOps /\ ~last.tareClock
  /\ \E p \in preTare[last.inst] : \E s \in last.s1 : \E r \in last.rtn :
       r < s - p

\* C8: RuntimeCastFromNano<double>(d, unit) is d divided by the unit's
\* cumulative divisor (1000 per step up to seconds, then 60, 60, 24, then 7
\* for weeks, 365.24 for years and a further 12 for months), and d itself
\* for a selector outside the enumeration.
C8_DoubleConversion ==
  (conv.fn = "RuntimeCastFromNano" /\ conv.rtnType = "double") =>
    /\ conv.out # {}
    /\ \A o \in conv.out : ValEq(o, RefConvert(conv.d, conv.precision))

C8_Witness ==
  /\ conv.fn = "RuntimeCastFromNano" /\ conv.rtnType = "double"
  /\ conv.d = Int64Big(Groups(<<60, 000, 000, 000>>))
  /\ conv.precision = Minutes
  /\ \E o \in conv.out : ValEq(o, Double(1, 1))

\* C9: for the return type int64_t both entry points return the real value
\* of the duration in the unit, truncated toward zero.
C9_IntegralConversion ==
  conv.rtnType = "int64_t" =>
    \A o \in conv.out :
      ValEq(o, Cast("int64_t", RefConvert(conv.d, conv.precision)))

\* C10: begin() and now() return the nanosecond count of beginDur() and
\* nowDur() whatever the precision argument is; elapsed() returns the
\* duration converted to the requested unit.
C10_BeginNowIgnorePrecision ==
  /\ last.op \in {"begin", "now"} =>
       /\ last.val # {}
       /\ \A r \in last.rtn : \A v \in last.val :
            ValEq(v, Cast(last.rtnType, Int64(r)))
  /\ last.op = "elapsed" =>
       \A r \in last.rtn : \A v \in last.val :
         ValEq(v, Cast(last.rtnType, RefConvert(Int64(r), last.precision)))

C10_Witness ==
  /\ last.op = "begin"
  /\ last.precision = Microseconds
  /\ last.rtnType = "int64_t"
  /\ \E r \in last.rtn : r >= 1 /\ last.val = {Int64(r)}

====
